---- MODULE Spec2Model ----
(***************************************************************************)
(* exact_lp: an algebraic modelling layer for linear programs over an      *)
(* exact numeric field (BigRational).  The module models                   *)
(*   - the Expression / Variable algebra and Constraint::to_normalized,    *)
(*   - the Model container with its VariableBuilder and Model::export,     *)
(*   - Model<BigRational>::import and Solution::get_value.                 *)
(***************************************************************************)
EXTENDS Integers, Sequences, FiniteSets, TLC

VARIABLES
    \* Constraint::to_normalized applied to a caller's constraint
    c,          \* the caller's constraint
    norm,       \* results of successive to_normalized calls, oldest first
    \* the operators of Variable applied to a caller's operands
    opv,        \* the Variable operand
    ope,        \* the right-hand operand of + and -
    opk,        \* the scalar operand of * and /
    opres,      \* <<>> or <<[op, out]>>: the operator called and what it returned
    \* a Model, its pending VariableBuilder and what its caller holds
    variables,  \* Model.variables: the table of InternalVariable records
    constraints, \* Model.constraints
    objective,  \* Model.objective
    direction,  \* Model.direction
    builder,    \* None, or Some(the InternalVariable of the pending builder)
    built,      \* the Variable handles build has returned, oldest first
    abandoned,  \* how many builders were dropped without build
    output,     \* None, or Some(the lines export wrote to the caller's writer)
    \* Model<BigRational>::import and Solution::get_value
    text,       \* the lines of the result text handed to import
    status,     \* "idle", or how import ended: "returned" or "panicked"
    values,     \* Solution.values: display name -> value
    query       \* <<>> or <<[e, value]>>: a get_value call and what it returned

exprVars == <<c, norm>>
opVars == <<opv, ope, opk, opres>>
modelVars == <<variables, constraints, objective, direction, builder, built,
               abandoned, output>>
solVars == <<text, status, values, query>>
vars == <<exprVars, opVars, modelVars, solVars>>

(***************************************************************************)
(* Bounds of the model                                                     *)
(***************************************************************************)
MaxTerms == 2
MaxNormalize == 2
MaxVars == 2
MaxConstraints == 2
MaxAbandoned == 1
MaxLines == 2

(***************************************************************************)
(* Option<T>: None is the empty sequence, Some(x) the one-element sequence *)
(***************************************************************************)
None == <<>>
Some(x) == <<x>>
IsSome(o) == o # <<>>
Unwrap(o) == o[1]

(***************************************************************************)
(* N = BigRational: a fraction kept in lowest terms with a positive        *)
(* denominator                                                             *)
(***************************************************************************)
Abs(n) == IF n < 0 THEN -n ELSE n

RECURSIVE GCD(_, _)
GCD(a, b) == IF b = 0 THEN a ELSE GCD(b, a % b)

RatNew(n, d) ==
    LET g == GCD(Abs(n), Abs(d))
        s == IF d < 0 THEN -1 ELSE 1
    IN  [num |-> (s * n) \div g, den |-> (s * d) \div g]

Zero == [num |-> 0, den |-> 1]
One == [num |-> 1, den |-> 1]
RatInt(n) == [num |-> n, den |-> 1]
RatAdd(a, b) == RatNew(a.num * b.den + b.num * a.den, a.den * b.den)
RatSub(a, b) == RatNew(a.num * b.den - b.num * a.den, a.den * b.den)
RatMul(a, b) == RatNew(a.num * b.num, a.den * b.den)
RatNeg(a) == [num |-> -a.num, den |-> a.den]
RatAbs(a) == [num |-> Abs(a.num), den |-> a.den]
\* a / b for b # 0; the callers model the panic of a zero divisor
RatDiv(a, b) == RatNew(a.num * b.den, a.den * b.num)

(***************************************************************************)
(* A call either returns a value or panics                                 *)
(***************************************************************************)
Ok(x) == [ok |-> TRUE, val |-> Some(x)]
Panicked == [ok |-> FALSE, val |-> None]

(***************************************************************************)
(* variable.rs: Variable { id, name }                                      *)
(***************************************************************************)
VariableNew(id, name) == [id |-> id, name |-> name]

VariableName(v) ==
    IF IsSome(v.name) THEN Unwrap(v.name) ELSE "v" \o ToString(v.id)

(***************************************************************************)
(* expression.rs: Expression(Vec<(N, Option<Variable>)>); a term is the    *)
(* pair <<coefficient, Option<Variable>>>                                  *)
(***************************************************************************)
ExprDefault == <<>>
ExprFromConst(bias) == <<<<bias, None>>>>
ExprFromVar(v) == <<<<One, Some(v)>>>>

ExprAdd(self, rhs) == self \o rhs

ExprMul(self, rhs) ==
    [i \in 1..Len(self) |-> <<RatMul(rhs, self[i][1]), self[i][2]>>]

ExprNeg(self) == ExprMul(self, RatSub(Zero, One))

ExprSub(self, rhs) == ExprAdd(self, ExprNeg(rhs))

\* mutant: the expression is scaled by rhs, not by its reciprocal
ExprDiv_no_reciprocal(self, rhs) ==
    IF rhs = Zero THEN Panicked ELSE Ok(ExprMul(self, rhs))

\* N::one() / rhs panics in BigRational when rhs is zero
ExprDiv(self, rhs) ==
    IF rhs = Zero THEN Panicked ELSE Ok(ExprMul(self, RatDiv(One, rhs)))

ExprLe(self, expr) == [lhs |-> self, ord |-> "Less", rhs |-> expr]
ExprEq(self, expr) == [lhs |-> self, ord |-> "Equal", rhs |-> expr]
ExprGe(self, expr) == [lhs |-> self, ord |-> "Greater", rhs |-> expr]

(***************************************************************************)
(* variable.rs: the operators of Variable                                  *)
(***************************************************************************)
VariableAdd(self, rhs) == ExprAdd(ExprFromVar(self), rhs)
VariableSub(self, rhs) == ExprSub(ExprFromVar(self), rhs)
VariableNeg(self) == ExprFromVar(self)
VariableMul(self, rhs) == ExprMul(ExprFromVar(self), rhs)
VariableDiv(self, rhs) == ExprDiv(ExprFromVar(self), rhs)

(***************************************************************************)
(* constraint.rs: Constraint::to_normalized                                *)
(***************************************************************************)
RECURSIVE FoldConst(_, _)
FoldConst(terms, r) ==
    IF terms = <<>> THEN r
    ELSE FoldConst(Tail(terms), RatAdd(r, Head(terms)[1]))

HasVar(e) == IsSome(e[2])
NoVar(e) == ~IsSome(e[2])

\* mutant: the folded constant is moved to the right without negating it
to_normalized_rhs_not_negated(self) ==
    LET new_lhs == ExprSub(self.lhs, self.rhs)
        v == SelectSeq(new_lhs, HasVar)
        k == FoldConst(SelectSeq(new_lhs, NoVar), Zero)
    IN  [lhs |-> v, ord |-> self.ord, rhs |-> ExprFromConst(k)]

\* mutant: the constant terms are folded but also left on the left side
to_normalized_keeps_constants(self) ==
    LET new_lhs == ExprSub(self.lhs, self.rhs)
        k == FoldConst(SelectSeq(new_lhs, NoVar), Zero)
    IN  [lhs |-> new_lhs, ord |-> self.ord, rhs |-> ExprFromConst(RatNeg(k))]

to_normalized(self) ==
    LET new_lhs == ExprSub(self.lhs, self.rhs)
        v == SelectSeq(new_lhs, HasVar)
        k == FoldConst(SelectSeq(new_lhs, NoVar), Zero)
    IN  [lhs |-> v, ord |-> self.ord, rhs |-> ExprFromConst(RatNeg(k))]

(***************************************************************************)
(* Display: the text a value renders as                                    *)
(***************************************************************************)
\* num's Display for BigRational: "n" when the denominator is one, "n/d"
\* otherwise (the precision of {:.64} does not apply to it)
RatStr(r) ==
    IF r.den = 1 THEN ToString(r.num)
    ELSE ToString(r.num) \o "/" \o ToString(r.den)

VariableFmt(v) ==
    IF IsSome(v.name) THEN Unwrap(v.name) ELSE "v" \o ToString(v.id)

TermVarStr(e) == IF IsSome(e[2]) THEN " " \o VariableFmt(Unwrap(e[2])) ELSE ""

RECURSIVE ExprRestStr(_)
ExprRestStr(terms) ==
    IF terms = <<>> THEN ""
    ELSE LET e == Head(terms)
         IN  (IF e[1] = RatAbs(e[1]) THEN " + " \o RatStr(e[1])
              ELSE " - " \o RatStr(RatAbs(e[1])))
                 \o TermVarStr(e) \o ExprRestStr(Tail(terms))

ExprStr(self) ==
    IF self = <<>> THEN ""
    ELSE RatStr(Head(self)[1]) \o TermVarStr(Head(self))
            \o ExprRestStr(Tail(self))

OrdStr(ord) ==
    CASE ord = "Greater" -> " >= "
      [] ord = "Equal" -> " = "
      [] ord = "Less" -> " <= "

ConstraintStr(self) ==
    ExprStr(self.lhs) \o OrdStr(self.ord) \o ExprStr(self.rhs)

(***************************************************************************)
(* lib.rs: Model, VariableBuilder                                          *)
(***************************************************************************)
VariableBuilderNew ==
    [v_type |-> "Continuous", name |-> None, lb |-> None, ub |-> None]

\* mutant: add_var reserves the id, so a dropped builder uses one up
BuildHandle_counts_abandoned(model_variables, variable) ==
    VariableNew(Len(model_variables) + abandoned, variable.name)

\* the handle VariableBuilder::build returns for the record it pushes
BuildHandle(model_variables, variable) ==
    VariableNew(Len(model_variables), variable.name)

InitModel ==
    /\ variables = <<>>
    /\ constraints = <<>>
    /\ objective = ExprDefault
    /\ direction = "Minimize"
    /\ builder = None
    /\ built = <<>>
    /\ abandoned = 0
    /\ output = None

(***************************************************************************)
(* lib.rs: Model::export, one string per line written                      *)
(***************************************************************************)
DirectionLine(d) == IF d = "Maximize" THEN "Maximize" ELSE "Minimize"

\* mutant: the objective is written with its constant terms
ObjectiveLine_keeps_constants(obj) == " obj: " \o ExprStr(obj)

ObjectiveLine(obj) == " obj: " \o ExprStr(SelectSeq(obj, HasVar))

\* i is the 0-based index enumerate() gives
ConstraintLine(i, k) ==
    " c" \o ToString(i) \o ": " \o ConstraintStr(to_normalized(k))

\* mutant: the fallback name counts the variables from one
BoundsName_one_based(i, v) ==
    IF IsSome(v.name) THEN Unwrap(v.name) ELSE "v" \o ToString(i + 1)

BoundsName(i, v) == IF IsSome(v.name) THEN Unwrap(v.name) ELSE "v" \o ToString(i)

BoundsLine(i, v) ==
    CASE IsSome(v.lb) /\ IsSome(v.ub) ->
            " " \o RatStr(Unwrap(v.lb)) \o " <= " \o BoundsName(i, v)
                \o " <= " \o RatStr(Unwrap(v.ub))
      [] IsSome(v.lb) /\ ~IsSome(v.ub) ->
            " " \o RatStr(Unwrap(v.lb)) \o " <= " \o BoundsName(i, v)
                \o " <= +inf"
      [] ~IsSome(v.lb) /\ IsSome(v.ub) ->
            " -inf <= " \o BoundsName(i, v) \o " <= " \o RatStr(Unwrap(v.ub))
      [] ~IsSome(v.lb) /\ ~IsSome(v.ub) ->
            " " \o BoundsName(i, v) \o " free"

KindName(i, v) == IF IsSome(v.name) THEN Unwrap(v.name) ELSE " v" \o ToString(i)

\* the lines of the variables of one kind, in table order
RECURSIVE KindLines(_, _, _)
KindLines(vs, i, kind) ==
    IF i >= Len(vs) THEN <<>>
    ELSE (IF vs[i + 1].v_type = kind THEN <<KindName(i, vs[i + 1])>> ELSE <<>>)
            \o KindLines(vs, i + 1, kind)

SubjectToLines(cs) == [i \in 1..Len(cs) |-> ConstraintLine(i - 1, cs[i])]

AllBoundsLines(vs) == [i \in 1..Len(vs) |-> BoundsLine(i - 1, vs[i])]

export(dir, obj, cs, vs) ==
    <<DirectionLine(dir), ObjectiveLine(obj), "Subject To">>
        \o SubjectToLines(cs)
        \o <<"Bounds">> \o AllBoundsLines(vs)
        \o <<"General">> \o KindLines(vs, 0, "Integer")
        \o <<"Binary">> \o KindLines(vs, 0, "Binary")
        \o <<"End">>

(***************************************************************************)
(* The caller's inputs to a Model                                          *)
(***************************************************************************)
NameInputs == {"x"}
LbInputs == {RatInt(0)}
UbInputs == {RatInt(10)}

Range(s) == {s[i] : i \in 1..Len(s)}

\* the handles a caller can hold: those build returned, and one made with
\* the public Variable::new for the next id the table has no record of
HandleInputs == Range(built) \cup {VariableNew(Len(variables), None)}

\* 2 h + 3 (relation) h + 1
ModelConstraintInputs ==
    {[lhs |-> ExprAdd(ExprMul(ExprFromVar(h), RatInt(2)), ExprFromConst(RatInt(3))),
      ord |-> o,
      rhs |-> ExprAdd(ExprFromVar(h), ExprFromConst(RatInt(1)))]
        : h \in HandleInputs, o \in {"Less", "Greater"}}

\* 3 + 2 h
ObjectiveInputs ==
    {ExprAdd(ExprFromConst(RatInt(3)), ExprMul(ExprFromVar(h), RatInt(2)))
        : h \in HandleInputs}

(***************************************************************************)
(* The operations on a Model.  A pending builder holds the Model's only    *)
(* mutable borrow, so no other operation of the Model runs until build     *)
(* consumes it or the caller drops it.  The caller keeps one written       *)
(* export at a time and discards it before changing the Model again.       *)
(***************************************************************************)
AddVar ==
    /\ builder = None
    /\ output = None
    /\ Len(variables) < MaxVars
    /\ builder' = Some(VariableBuilderNew)
    /\ UNCHANGED <<variables, constraints, objective, direction, built,
                   abandoned, output, exprVars, opVars, solVars>>

BuilderBinary ==
    /\ builder # None
    /\ builder' = Some([Unwrap(builder) EXCEPT !.v_type = "Binary"])
    /\ UNCHANGED <<variables, constraints, objective, direction, built,
                   abandoned, output, exprVars, opVars, solVars>>

BuilderInteger ==
    /\ builder # None
    /\ builder' = Some([Unwrap(builder) EXCEPT !.v_type = "Integer"])
    /\ UNCHANGED <<variables, constraints, objective, direction, built,
                   abandoned, output, exprVars, opVars, solVars>>

BuilderName ==
    /\ builder # None
    /\ \E name \in NameInputs :
          builder' = Some([Unwrap(builder) EXCEPT !.name = Some(name)])
    /\ UNCHANGED <<variables, constraints, objective, direction, built,
                   abandoned, output, exprVars, opVars, solVars>>

BuilderLb ==
    /\ builder # None
    /\ \E lb \in LbInputs :
          builder' = Some([Unwrap(builder) EXCEPT !.lb = Some(lb)])
    /\ UNCHANGED <<variables, constraints, objective, direction, built,
                   abandoned, output, exprVars, opVars, solVars>>

BuilderUb ==
    /\ builder # None
    /\ \E ub \in UbInputs :
          builder' = Some([Unwrap(builder) EXCEPT !.ub = Some(ub)])
    /\ UNCHANGED <<variables, constraints, objective, direction, built,
                   abandoned, output, exprVars, opVars, solVars>>

Build ==
    /\ builder # None
    /\ built' = Append(built, BuildHandle(variables, Unwrap(builder)))
    /\ variables' = Append(variables, Unwrap(builder))
    /\ builder' = None
    /\ UNCHANGED <<constraints, objective, direction, abandoned, output,
                   exprVars, opVars, solVars>>

\* the builder add_var returned is dropped without build
DropBuilder ==
    /\ builder # None
    /\ abandoned < MaxAbandoned
    /\ builder' = None
    /\ abandoned' = abandoned + 1
    /\ UNCHANGED <<variables, constraints, objective, direction, built,
                   output, exprVars, opVars, solVars>>

Maximize ==
    /\ builder = None
    /\ output = None
    /\ direction' = "Maximize"
    /\ UNCHANGED <<variables, constraints, objective, builder, built,
                   abandoned, output, exprVars, opVars, solVars>>

Minimize ==
    /\ builder = None
    /\ output = None
    /\ direction' = "Minimize"
    /\ UNCHANGED <<variables, constraints, objective, builder, built,
                   abandoned, output, exprVars, opVars, solVars>>

AddConst ==
    /\ builder = None
    /\ output = None
    /\ Len(constraints) < MaxConstraints
    /\ \E k \in ModelConstraintInputs : constraints' = Append(constraints, k)
    /\ UNCHANGED <<variables, objective, direction, builder, built,
                   abandoned, output, exprVars, opVars, solVars>>

SetObjective ==
    /\ builder = None
    /\ output = None
    /\ \E obj \in ObjectiveInputs : objective' = obj
    /\ UNCHANGED <<variables, constraints, direction, builder, built,
                   abandoned, output, exprVars, opVars, solVars>>

Export ==
    /\ builder = None
    /\ output = None
    /\ output' = Some(export(direction, objective, constraints, variables))
    /\ UNCHANGED <<variables, constraints, objective, direction, builder,
                   built, abandoned, exprVars, opVars, solVars>>

\* the caller discards the text export wrote
Discard ==
    /\ output # None
    /\ output' = None
    /\ UNCHANGED <<variables, constraints, objective, direction, builder,
                   built, abandoned, exprVars, opVars, solVars>>

(***************************************************************************)
(* lib.rs: Solution::get_value                                             *)
(***************************************************************************)
EmptyValues == [name \in {} |-> Zero]

\* what one term contributes: the value recorded for its variable's name,
\* or zero, or one for a constant term, times the coefficient
TermValue(vals, e) ==
    RatMul(IF IsSome(e[2])
           THEN IF VariableName(Unwrap(e[2])) \in DOMAIN vals
                THEN vals[VariableName(Unwrap(e[2]))]
                ELSE Zero
           ELSE One,
           e[1])

RECURSIVE Reduce(_, _, _)
Reduce(vals, terms, acc) ==
    IF terms = <<>> THEN acc
    ELSE Reduce(vals, Tail(terms), RatAdd(acc, TermValue(vals, Head(terms))))

\* mutant: a constant term is looked up like a variable and counts zero
get_value_drops_constants(vals, e) ==
    IF e = <<>> THEN Zero
    ELSE Reduce(vals, SelectSeq(e, HasVar), Zero)

get_value(vals, e) ==
    IF e = <<>> THEN Zero
    ELSE Reduce(vals, Tail(e), TermValue(vals, Head(e)))

(***************************************************************************)
(* lib.rs: Model<BigRational>::import.  A line is a sequence of            *)
(* characters; the regex is                                                *)
(*   ^(?<id>\w+)\s+(?<fraction>\d+(?:\/\d+)?)                              *)
(***************************************************************************)
DigitChars == {"0", "1", "2", "4", "5", "9"}
WordChars == DigitChars \cup {"x", "y", "v", "s", "o", "l", "_"}
SpaceChars == {" "}

DigitValue(ch) ==
    CASE ch = "0" -> 0 [] ch = "1" -> 1 [] ch = "2" -> 2
      [] ch = "4" -> 4 [] ch = "5" -> 5 [] ch = "9" -> 9

\* the last index of the longest run of characters of class that starts at
\* index i (i - 1 when line[i] is not of the class)
RECURSIVE RunEnd(_, _, _)
RunEnd(line, i, class) ==
    IF i <= Len(line) /\ line[i] \in class THEN RunEnd(line, i + 1, class)
    ELSE i - 1

\* mutant: the pattern ends with $, so nothing may follow the number
ReCaptures_anchored(line) ==
    LET a == RunEnd(line, 1, WordChars)
        b == RunEnd(line, a + 1, SpaceChars)
        d == RunEnd(line, b + 1, DigitChars)
        f == IF d + 1 <= Len(line) /\ line[d + 1] = "/"
             THEN RunEnd(line, d + 2, DigitChars)
             ELSE d
    IN  IF a >= 1 /\ b > a /\ d > b /\ (IF f > d + 1 THEN f ELSE d) = Len(line)
        THEN Some([id |-> SubSeq(line, 1, a),
                   fraction |-> SubSeq(line, b + 1, Len(line))])
        ELSE None

\* mutant: the pattern lets a - stand before the number and leaves it out
\* of the fraction group
ReCaptures_skips_sign(line) ==
    LET a == RunEnd(line, 1, WordChars)
        b == RunEnd(line, a + 1, SpaceChars)
        m == IF b + 1 <= Len(line) /\ line[b + 1] = "-" THEN b + 1 ELSE b
        d == RunEnd(line, m + 1, DigitChars)
        f == IF d + 1 <= Len(line) /\ line[d + 1] = "/"
             THEN RunEnd(line, d + 2, DigitChars)
             ELSE d
    IN  IF a >= 1 /\ b > a /\ d > m
        THEN Some([id |-> SubSeq(line, 1, a),
                   fraction |-> SubSeq(line, m + 1, IF f > d + 1 THEN f ELSE d)])
        ELSE None

\* Regex::captures: None, or Some of the groups id and fraction
ReCaptures(line) ==
    LET a == RunEnd(line, 1, WordChars)
        b == RunEnd(line, a + 1, SpaceChars)
        d == RunEnd(line, b + 1, DigitChars)
        f == IF d + 1 <= Len(line) /\ line[d + 1] = "/"
             THEN RunEnd(line, d + 2, DigitChars)
             ELSE d
    IN  IF a >= 1 /\ b > a /\ d > b
        THEN Some([id |-> SubSeq(line, 1, a),
                   fraction |-> SubSeq(line, b + 1, IF f > d + 1 THEN f ELSE d)])
        ELSE None

RECURSIVE StrOf(_)
StrOf(chars) == IF chars = <<>> THEN "" ELSE Head(chars) \o StrOf(Tail(chars))

RECURSIVE ParseNat(_, _)
ParseNat(digits, acc) ==
    IF digits = <<>> THEN acc
    ELSE ParseNat(Tail(digits), 10 * acc + DigitValue(Head(digits)))

SlashAt(s) == IF \E i \in 1..Len(s) : s[i] = "/"
              THEN CHOOSE i \in 1..Len(s) : s[i] = "/" /\ \A j \in 1..(i - 1) : s[j] # "/"
              ELSE 0

\* BigRational::from_str on the fraction group: Err (None) for a zero
\* denominator
BigRationalFromStr(s) ==
    LET i == SlashAt(s)
        n == ParseNat(IF i = 0 THEN s ELSE SubSeq(s, 1, i - 1), 0)
        d == IF i = 0 THEN 1 ELSE ParseNat(SubSeq(s, i + 1, Len(s)), 0)
    IN  IF d = 0 THEN None ELSE Some(RatNew(n, d))

Insert(vals, id, val) ==
    [name \in DOMAIN vals \cup {id} |-> IF name = id THEN val ELSE vals[name]]

\* the loop over the lines: Ok(values), or Panicked at the first fraction
\* from_str rejects
RECURSIVE ImportLines(_, _)
ImportLines(lines, vals) ==
    IF lines = <<>> THEN Ok(vals)
    ELSE LET caps == ReCaptures(Head(lines))
         IN  IF caps = None THEN ImportLines(Tail(lines), vals)
             ELSE LET fraction == BigRationalFromStr(Unwrap(caps).fraction)
                  IN  IF fraction = None THEN Panicked
                      ELSE ImportLines(Tail(lines),
                                       Insert(vals, StrOf(Unwrap(caps).id),
                                              Unwrap(fraction)))

import(lines) == ImportLines(lines, EmptyValues)

SolIdle ==
    /\ text = <<>>
    /\ status = "idle"
    /\ values = EmptyValues
    /\ query = <<>>

(***************************************************************************)
(* The caller's inputs                                                     *)
(***************************************************************************)
VarX == VariableNew(0, Some("x"))
VarY == VariableNew(1, Some("y"))

TermInputs ==
    {<<RatInt(w), Some(v)>> : w \in {1, 2}, v \in {VarX, VarY}}
        \cup {<<RatInt(w), None>> : w \in {1, 3}}

SeqsUpTo(S, n) == UNION {[1..k -> S] : k \in 0..n}

ExprInputs == SeqsUpTo(TermInputs, MaxTerms)

OrdInputs == {"Less", "Equal", "Greater"}

ConstraintInputs ==
    [lhs : ExprInputs, ord : OrdInputs, rhs : ExprInputs]

VariableInputs ==
    {VariableNew(id, name) : id \in 0..1, name \in {None, Some("x")}}

ScalarInputs == {Zero, RatInt(2), RatNew(-1, 2)}

(***************************************************************************)
(* to_normalized called on a constraint, and again on its result           *)
(***************************************************************************)
ExprIdle ==
    /\ c = ExprLe(ExprDefault, ExprDefault)
    /\ norm = <<>>

OpsIdle ==
    /\ opv = VarX
    /\ ope = ExprDefault
    /\ opk = One
    /\ opres = <<>>

InitExpr ==
    /\ c \in ConstraintInputs
    /\ norm = <<>>
    /\ OpsIdle
    /\ InitModel
    /\ SolIdle

Normalize ==
    /\ Len(norm) < MaxNormalize
    /\ norm' = Append(norm,
                      to_normalized(IF norm = <<>> THEN c ELSE norm[Len(norm)]))
    /\ UNCHANGED <<c, opVars, modelVars, solVars>>

NextExpr == Normalize

SpecExpr == InitExpr /\ [][NextExpr]_vars

(***************************************************************************)
(* The operators of Variable called on the caller's operands               *)
(***************************************************************************)
InitOps ==
    /\ ExprIdle
    /\ opv \in VariableInputs
    /\ ope \in ExprInputs
    /\ opk \in ScalarInputs
    /\ opres = <<>>
    /\ InitModel
    /\ SolIdle

VarAddCall ==
    /\ opres = <<>>
    /\ opres' = <<[op |-> "add", out |-> Ok(VariableAdd(opv, ope))]>>
    /\ UNCHANGED <<exprVars, opv, ope, opk, modelVars, solVars>>

VarSubCall ==
    /\ opres = <<>>
    /\ opres' = <<[op |-> "sub", out |-> Ok(VariableSub(opv, ope))]>>
    /\ UNCHANGED <<exprVars, opv, ope, opk, modelVars, solVars>>

VarNegCall ==
    /\ opres = <<>>
    /\ opres' = <<[op |-> "neg", out |-> Ok(VariableNeg(opv))]>>
    /\ UNCHANGED <<exprVars, opv, ope, opk, modelVars, solVars>>

VarMulCall ==
    /\ opres = <<>>
    /\ opres' = <<[op |-> "mul", out |-> Ok(VariableMul(opv, opk))]>>
    /\ UNCHANGED <<exprVars, opv, ope, opk, modelVars, solVars>>

VarDivCall ==
    /\ opres = <<>>
    /\ opres' = <<[op |-> "div", out |-> VariableDiv(opv, opk)]>>
    /\ UNCHANGED <<exprVars, opv, ope, opk, modelVars, solVars>>

\* the caller's (e / s) * s on the expression operand
ExprDivMulCall ==
    /\ opres = <<>>
    /\ opres' = <<[op |-> "divmul",
                   out |-> IF ExprDiv(ope, opk).ok
                           THEN Ok(ExprMul(Unwrap(ExprDiv(ope, opk).val), opk))
                           ELSE Panicked]>>
    /\ UNCHANGED <<exprVars, opv, ope, opk, modelVars, solVars>>

NextOps ==
    \/ VarAddCall
    \/ VarSubCall
    \/ VarNegCall
    \/ VarMulCall
    \/ VarDivCall
    \/ ExprDivMulCall

SpecOps == InitOps /\ [][NextOps]_vars

(***************************************************************************)
(* A Model being built and exported                                        *)
(***************************************************************************)
Init ==
    /\ InitModel
    /\ ExprIdle
    /\ OpsIdle
    /\ SolIdle

Next ==
    \/ AddVar
    \/ BuilderBinary
    \/ BuilderInteger
    \/ BuilderName
    \/ BuilderLb
    \/ BuilderUb
    \/ Build
    \/ DropBuilder
    \/ Maximize
    \/ Minimize
    \/ AddConst
    \/ SetObjective
    \/ Export
    \/ Discard

Spec == Init /\ [][Next]_vars

\* the builder in all its configurations; the Model holds no constraint
NextBuilder ==
    \/ AddVar
    \/ BuilderBinary
    \/ BuilderInteger
    \/ BuilderName
    \/ BuilderLb
    \/ BuilderUb
    \/ Build
    \/ DropBuilder
    \/ Export
    \/ Discard

SpecBuilder == Init /\ [][NextBuilder]_vars

\* the contents of the Model; its variables are unnamed and unbounded
NextContent ==
    \/ AddVar
    \/ BuilderBinary
    \/ BuilderInteger
    \/ Build
    \/ DropBuilder
    \/ Maximize
    \/ Minimize
    \/ AddConst
    \/ SetObjective
    \/ Export
    \/ Discard

SpecContent == Init /\ [][NextContent]_vars

(***************************************************************************)
(* import called on a result text                                          *)
(***************************************************************************)
LineInputs ==
    { <<"x", " ", "4">>,                        \* x 4
      <<"y", " ", "5">>,                        \* y 5
      <<"x", " ", "1", "/", "2">>,              \* x 1/2
      <<"y", " ", "4", "/", "2">>,              \* y 4/2
      <<"v", "0", " ", " ", "1", "0">>,         \* v0  10
      <<"x", " ", "4", " ", "(", "o">>,         \* x 4 (o   an annotation follows
      <<"y", " ", "4", ".", "5">>,              \* y 4.5
      <<"y", " ", "4", "/">>,                   \* y 4/
      <<"x", " ", "1", "/", "0">>,              \* x 1/0
      <<"x", " ", "-", "4">>,                   \* x -4
      <<"y", " ", "-", "1", "/", "2">>,         \* y -1/2
      <<"s", "o", "l", ":", " ", "9">>,         \* sol: 9   a banner
      <<" ", "x", " ", "4">>,                   \*  x 4
      <<"x", "4">>,                             \* x4
      <<>> }

TextInputs == SeqsUpTo(LineInputs, MaxLines)

InitImport ==
    /\ text \in TextInputs
    /\ status = "idle"
    /\ values = EmptyValues
    /\ query = <<>>
    /\ InitModel
    /\ ExprIdle
    /\ OpsIdle

Import ==
    /\ status = "idle"
    /\ LET r == import(text)
       IN  IF r.ok
           THEN status' = "returned" /\ values' = Unwrap(r.val)
           ELSE status' = "panicked" /\ values' = values
    /\ UNCHANGED <<text, query, exprVars, opVars, modelVars>>

NextImport == Import

SpecImport == InitImport /\ [][NextImport]_vars

(***************************************************************************)
(* get_value called on a Solution                                          *)
(***************************************************************************)
VarU == VariableNew(1, None)

SolutionInputs ==
    UNION {[names -> {RatInt(4), RatNew(1, 2)}] : names \in SUBSET {"x", "v1", "y"}}

QueryTermInputs ==
    {<<w, v>> : w \in {RatInt(2), RatNew(-1, 2)},
                v \in {Some(VarX), Some(VarU), None}}

QueryInputs == SeqsUpTo(QueryTermInputs, MaxTerms)

InitSolution ==
    /\ text = <<>>
    /\ status = "returned"
    /\ values \in SolutionInputs
    /\ query = <<>>
    /\ InitModel
    /\ ExprIdle
    /\ OpsIdle

GetValue ==
    /\ status = "returned"
    /\ query = <<>>
    /\ \E e \in QueryInputs : query' = <<[e |-> e, value |-> get_value(values, e)]>>
    /\ UNCHANGED <<text, status, values, exprVars, opVars, modelVars>>

NextSolution == GetValue

SpecSolution == InitSolution /\ [][NextSolution]_vars

(***************************************************************************)
(* Claims about the expression algebra and normalization                   *)
(***************************************************************************)
\* the terms of lhs followed by the terms of rhs with each coefficient
\* multiplied by -1
MovedTerms(k) ==
    [i \in 1..(Len(k.lhs) + Len(k.rhs)) |->
        IF i <= Len(k.lhs) THEN k.lhs[i]
        ELSE <<RatMul(RatInt(-1), k.rhs[i - Len(k.lhs)][1]),
               k.rhs[i - Len(k.lhs)][2]>>]

RECURSIVE SumConstants(_)
SumConstants(terms) ==
    IF terms = <<>> THEN Zero
    ELSE RatAdd(IF NoVar(Head(terms)) THEN Head(terms)[1] ELSE Zero,
                SumConstants(Tail(terms)))

NormInput(i) == IF i = 1 THEN c ELSE norm[i - 1]

\* C1: to_normalized(lhs, relation, rhs) has as lhs the variable-bearing
\* terms of [lhs terms, then rhs terms times -1] in that order and unmerged,
\* as rhs the single constant term -(sum of the constant terms of that
\* sequence), and the relation of its input.
C1_NormalizedForm ==
    \A i \in 1..Len(norm) :
        LET m == MovedTerms(NormInput(i))
        IN  /\ norm[i].lhs = SelectSeq(m, HasVar)
            /\ norm[i].rhs = <<<<RatNeg(SumConstants(m)), None>>>>
            /\ norm[i].ord = NormInput(i).ord

\* 2x + 3 <= y + 1 has been normalized to [2x, -1y] <= -2
C1_Witness ==
    /\ c = [lhs |-> <<<<RatInt(2), Some(VarX)>>, <<RatInt(3), None>>>>,
            ord |-> "Less",
            rhs |-> <<<<RatInt(1), Some(VarY)>>, <<RatInt(1), None>>>>]
    /\ Len(norm) >= 1
    /\ norm[1] = [lhs |-> <<<<RatInt(2), Some(VarX)>>, <<RatInt(-1), Some(VarY)>>>>,
                  ord |-> "Less",
                  rhs |-> <<<<RatInt(-2), None>>>>]

\* C2: every operator of Variable returns what the same operator of
\* Expression returns on Expression::from(v); negating v yields the single
\* term -1 v.
C2_VariableOpsAsPromoted ==
    \A r \in {opres[i] : i \in 1..Len(opres)} :
      r.op \in {"add", "sub", "neg", "mul", "div"} =>
        LET e == ExprFromVar(opv)
        IN  r.out = CASE r.op = "add" -> Ok(ExprAdd(e, ope))
                      [] r.op = "sub" -> Ok(ExprSub(e, ope))
                      [] r.op = "neg" -> Ok(ExprNeg(e))
                      [] r.op = "mul" -> Ok(ExprMul(e, opk))
                      [] r.op = "div" -> ExprDiv(e, opk)

\* C10: normalizing a normalized constraint changes neither its rhs
\* constant, nor its relation, nor the variable terms of its lhs.
C10_NormalizeIdempotent ==
    \A i \in 2..Len(norm) :
        /\ norm[i].rhs = norm[i - 1].rhs
        /\ norm[i].ord = norm[i - 1].ord
        /\ SelectSeq(norm[i].lhs, HasVar) = SelectSeq(norm[i - 1].lhs, HasVar)
        /\ Len(norm[i].lhs) = Len(norm[i - 1].lhs)

\* a constraint with a non-zero folded constant and variables on both sides
\* has been normalized twice
C10_Witness ==
    /\ Len(norm) >= 2
    /\ norm[1].rhs # ExprFromConst(Zero)
    /\ Len(norm[1].lhs) = 2
    /\ Len(c.rhs) = 2
    /\ norm[2] = norm[1]

\* C11: for a scalar s other than zero, (e / s) * s has as many terms as e
\* and each term has the coefficient and the variable (or none) of the term
\* of e at its position.
C11_DivThenMulRestores ==
    \A r \in {opres[i] : i \in 1..Len(opres)} :
        (r.op = "divmul" /\ opk # Zero) =>
            /\ r.out.ok
            /\ Len(Unwrap(r.out.val)) = Len(ope)
            /\ \A i \in 1..Len(ope) :
                  /\ Unwrap(r.out.val)[i][1] = ope[i][1]
                  /\ Unwrap(r.out.val)[i][2] = ope[i][2]

\* (e / s) * s has returned for s = -1/2 and an e of a variable term and a
\* constant term
C11_Witness ==
    /\ opk = RatNew(-1, 2)
    /\ ope = <<<<RatInt(2), Some(VarX)>>, <<RatInt(3), None>>>>
    /\ opres # <<>>
    /\ opres[1].op = "divmul"
    /\ opres[1].out = Ok(ope)

(***************************************************************************)
(* Claims about the Model, its builder and export                          *)
(***************************************************************************)
\* C6: the k-th Variable build returned (from 0) has id k, which is the
\* index of its record in the Model's table, whatever builders were
\* configured or dropped in between; a dropped builder adds no record and
\* uses up no id.
C6_IdsFollowCreationOrder ==
    /\ Len(built) = Len(variables)
    /\ \A k \in 1..Len(built) :
          /\ built[k].id = k - 1
          /\ built[k].name = variables[k].name
          /\ \A j \in 1..Len(built) : built[j].id = built[k].id => j = k

\* a builder was dropped and, after it, build returned the second variable
C6_Witness ==
    /\ abandoned >= 1
    /\ Len(built) = MaxVars
    /\ built[MaxVars].id = MaxVars - 1

ModelTerms ==
    Range(objective)
        \cup UNION {Range(constraints[i].lhs) \cup Range(constraints[i].rhs)
                        : i \in 1..Len(constraints)}

\* C7: every variable a term of the objective or of a registered constraint
\* refers to has a record in the Model's table.
C7_TermsReferToTable ==
    \A e \in ModelTerms : IsSome(e[2]) => Unwrap(e[2]).id < Len(variables)

CountKind(kind) ==
    Cardinality({k \in 1..Len(variables) : variables[k].v_type = kind})

\* C8: export writes the direction keyword, the obj: line with the
\* objective less its constant terms, Subject To and one line c<i> per
\* constraint in insertion order holding its normalized form, then Bounds,
\* General, Binary and End.
C8_ExportSections ==
    output # None =>
        LET out == Unwrap(output)
            n == Len(constraints)
            g == 4 + n + Len(variables) + 1
            b == g + CountKind("Integer") + 1
        IN  /\ out[1] = (IF direction = "Maximize" THEN "Maximize" ELSE "Minimize")
            /\ out[2] = " obj: " \o ExprStr(SelectSeq(objective, HasVar))
            /\ out[3] = "Subject To"
            /\ \A i \in 1..n :
                  out[3 + i] = " c" \o ToString(i - 1) \o ": "
                                  \o ConstraintStr(to_normalized(constraints[i]))
            /\ out[4 + n] = "Bounds"
            /\ out[g] = "General"
            /\ out[b] = "Binary"
            /\ Len(out) = b + CountKind("Binary") + 1
            /\ out[Len(out)] = "End"

\* a maximized Model with a non-empty objective, two constraints and
\* variables of both integer kinds has been exported
C8_Witness ==
    /\ output # None
    /\ direction = "Maximize"
    /\ Len(constraints) = 2
    /\ Unwrap(output)[2] = " obj: 2 v0"
    /\ Unwrap(output)[4] = " c0: 2 v0 - 1 v0 <= -2"
    /\ Unwrap(output)[5] = " c1: 2 v1 - 1 v1 >= -2"
    /\ CountKind("Integer") = 1
    /\ CountKind("Binary") = 1

BoundsForm(lb, ub, name) ==
    IF IsSome(lb)
    THEN IF IsSome(ub)
         THEN " " \o RatStr(Unwrap(lb)) \o " <= " \o name \o " <= " \o RatStr(Unwrap(ub))
         ELSE " " \o RatStr(Unwrap(lb)) \o " <= " \o name \o " <= +inf"
    ELSE IF IsSome(ub)
         THEN " -inf <= " \o name \o " <= " \o RatStr(Unwrap(ub))
         ELSE " " \o name \o " free"

\* C9: the Bounds section holds one line per variable in declaration order,
\* in the form the bounds set on the builder select, and names the variable
\* as its handle renders: the builder's name, or v followed by the id.
C9_BoundsLines ==
    output # None =>
        LET out == Unwrap(output)
            n == Len(constraints)
        IN  /\ out[4 + n] = "Bounds"
            /\ out[4 + n + Len(variables) + 1] = "General"
            /\ \A k \in 1..Len(variables) :
                  /\ out[4 + n + k] = BoundsForm(variables[k].lb, variables[k].ub,
                                                 VariableFmt(built[k]))
                  /\ VariableFmt(built[k]) = VariableName(built[k])
                  /\ VariableFmt(built[k]) =
                        (IF IsSome(variables[k].name) THEN Unwrap(variables[k].name)
                         ELSE "v" \o ToString(built[k].id))

\* a Model whose first variable is named and bounded on both sides and
\* whose second is unnamed and free has been exported
C9_Witness ==
    /\ output # None
    /\ Len(variables) = 2
    /\ Unwrap(output)[5] = " 0 <= x <= 10"
    /\ variables[2].name = None
    /\ VariableFmt(built[2]) = "v1"
    /\ Unwrap(output)[6] = " v1 free"

(***************************************************************************)
(* Claims about import and get_value                                       *)
(***************************************************************************)
RECURSIVE SumOfTerms(_, _)
SumOfTerms(vals, terms) ==
    IF terms = <<>> THEN Zero
    ELSE LET w == Head(terms)[1]
             v == Head(terms)[2]
             x == IF v = None THEN One
                  ELSE IF VariableName(Unwrap(v)) \in DOMAIN vals
                       THEN vals[VariableName(Unwrap(v))]
                       ELSE Zero
         IN  RatAdd(RatMul(w, x), SumOfTerms(vals, Tail(terms)))

\* C3: get_value(e) returns the sum over e's terms of coefficient * value,
\* the value being the mapping's entry for the variable's display name, zero
\* when the name is absent, one for a constant term; zero for the empty
\* expression.
C3_GetValueIsWeightedSum ==
    \A q \in Range(query) : q.value = SumOfTerms(values, q.e)

\* get_value has answered for 2 v1 - 1/2 under a mapping without v1
C3_Witness ==
    /\ DOMAIN values = {"x"}
    /\ query # <<>>
    /\ query[1].e = <<<<RatInt(2), Some(VarU)>>, <<RatNew(-1, 2), None>>>>
    /\ query[1].value = RatNew(-1, 2)

AllIn(s, class) == \A i \in 1..Len(s) : s[i] \in class

\* digits, or digits/digits
IsNumber(s) ==
    /\ s # <<>>
    /\ \/ AllIn(s, DigitChars)
       \/ \E i \in 2..(Len(s) - 1) :
             /\ s[i] = "/"
             /\ AllIn(SubSeq(s, 1, i - 1), DigitChars)
             /\ AllIn(SubSeq(s, i + 1, Len(s)), DigitChars)

RECURSIVE Decimal(_)
Decimal(s) ==
    IF s = <<>> THEN 0
    ELSE 10 * Decimal(SubSeq(s, 1, Len(s) - 1)) + DigitValue(s[Len(s)])

NumberNum(s) ==
    IF AllIn(s, DigitChars) THEN Decimal(s)
    ELSE Decimal(SubSeq(s, 1, (CHOOSE i \in 1..Len(s) : s[i] = "/") - 1))

NumberDen(s) ==
    IF AllIn(s, DigitChars) THEN 1
    ELSE Decimal(SubSeq(s, (CHOOSE i \in 1..Len(s) : s[i] = "/") + 1, Len(s)))

\* the ways to read a line as identifier, whitespace, number and a rest: the
\* number is the longest one that starts there
Readings(line) ==
    {r \in [a : 1..Len(line), b : 1..Len(line), e : 1..Len(line)] :
        /\ r.a < r.b /\ r.b < r.e
        /\ AllIn(SubSeq(line, 1, r.a), WordChars)
        /\ AllIn(SubSeq(line, r.a + 1, r.b), SpaceChars)
        /\ IsNumber(SubSeq(line, r.b + 1, r.e))
        /\ \A e2 \in (r.e + 1)..Len(line) : ~IsNumber(SubSeq(line, r.b + 1, e2))}

\* the line is made of identifier, whitespace and number and nothing else
WholeReadings(line) == {r \in Readings(line) : r.e = Len(line)}

ReadName(line, r) == StrOf(SubSeq(line, 1, r.a))
ReadToken(line, r) == SubSeq(line, r.b + 1, r.e)

LeadWord(line) == SubSeq(line, 1, RunEnd(line, 1, WordChars))

\* each name starts at most one line
UniqueNames(lines) ==
    \A i, j \in 1..Len(lines) :
        (LeadWord(lines[i]) # <<>> /\ LeadWord(lines[i]) = LeadWord(lines[j]))
            => i = j

\* name -> value for the lines that have a reading (a whole-line reading
\* when whole is TRUE)
Entries(lines, whole) ==
    LET read == UNION {{<<i, r>> : r \in (IF whole THEN WholeReadings(lines[i])
                                           ELSE Readings(lines[i]))}
                          : i \in 1..Len(lines)}
    IN  [name \in {ReadName(lines[p[1]], p[2]) : p \in read} |->
            LET p == CHOOSE q \in read : ReadName(lines[q[1]], q[2]) = name
                t == ReadToken(lines[p[1]], p[2])
            IN  RatNew(NumberNum(t), NumberDen(t))]

ZeroDenominatorLine(lines) ==
    \E i \in 1..Len(lines) : \E r \in Readings(lines[i]) :
        NumberDen(ReadToken(lines[i], r)) = 0

C5_ImportNeverAborts == status # "panicked"

\* the line is a name, whitespace, - and a number: a negative value
NegativeLine(line) ==
    \E a, b \in 1..Len(line) :
        /\ a < b /\ b + 1 < Len(line)
        /\ AllIn(SubSeq(line, 1, a), WordChars)
        /\ AllIn(SubSeq(line, a + 1, b), SpaceChars)
        /\ line[b + 1] = "-"
        /\ IsNumber(SubSeq(line, b + 2, Len(line)))

\* the character after the name and the whitespace of the line is a digit
DigitAfterName(line) ==
    LET a == RunEnd(line, 1, WordChars)
        b == RunEnd(line, a + 1, SpaceChars)
    IN  a >= 1 /\ b > a /\ b + 1 <= Len(line) /\ line[b + 1] \in DigitChars

\* C12: import records a value only from a number token that starts with a
\* digit; a line that gives a name a negative value is skipped, so the name
\* has no entry and get_value of that variable is zero.
C12_NegativeValuesSkipped ==
    status = "returned" =>
        /\ \A name \in DOMAIN values :
              \E i \in 1..Len(text) :
                  StrOf(LeadWord(text[i])) = name /\ DigitAfterName(text[i])
        /\ \A i \in 1..Len(text) :
              (/\ NegativeLine(text[i])
               /\ \A j \in 1..Len(text) :
                     LeadWord(text[j]) = LeadWord(text[i]) => j = i)
                 => /\ StrOf(LeadWord(text[i])) \notin DOMAIN values
                    /\ get_value(values,
                                 ExprFromVar(VariableNew(0, Some(StrOf(LeadWord(text[i]))))))
                          = Zero

\* `x -4` and `y -1/2` have been imported: no entry, x and y read as zero
C12_Witness ==
    /\ text = << <<"x", " ", "-", "4">>, <<"y", " ", "-", "1", "/", "2">> >>
    /\ status = "returned"
    /\ values = EmptyValues
    /\ get_value(values, ExprFromVar(VarX)) = Zero
    /\ get_value(values, ExprFromVar(VarY)) = Zero

====
